---- MODULE Spec2Model ----
(***************************************************************************)
(* Model of src/health-tips.js: the personalised tip generator             *)
(* generatePersonalTips, the static generalTips list and the page builder  *)
(* loadTips, run by the DOMContentLoaded handler.                          *)
(*                                                                         *)
(* Numbers are fixed-point, in thousandths: 18.5 is 18500, 24.999 is       *)
(* 24999, 7 hours is 7000, 60 bpm is 60000.  A mean is kept as the exact   *)
(* fraction total / count and compared by cross-multiplication.            *)
(* Titles are the source's, with its em dash written as a hyphen; a tip's  *)
(* body is represented by the number interpolated into it.                 *)
(***************************************************************************)
EXTENDS Integers, Sequences, FiniteSets, TLC

VARIABLES storage, questLog, personalTips, innerHTML, prevTips, calls

vars == <<storage, questLog, personalTips, innerHTML, prevTips, calls>>

\* Longest stored log, and the number of page loads followed.
MaxLen == 3
MaxCalls == 2

(***************************************************************************)
(* JavaScript values of an entry's fields, as JSON.parse delivers them.    *)
(*   undefined : the property is missing                                   *)
(*   number    : a JSON number, n thousandths                              *)
(*   numstr    : a string holding a decimal, such as "22.5"                *)
(*   junk      : a non-empty string that is no number, such as "abc"       *)
(*   dash      : the string '--'                                           *)
(*   boolean   : true (n = 1) or false (n = 0)                             *)
(***************************************************************************)
Undef == [k |-> "undefined", n |-> 0]
Num(x) == [k |-> "number", n |-> x]
Str(x) == [k |-> "numstr", n |-> x]
Junk == [k |-> "junk", n |-> 0]
Dash == [k |-> "dash", n |-> 0]
Bool(b) == [k |-> "boolean", n |-> IF b THEN 1 ELSE 0]

\* The result of a numeric conversion: NaN or a number of thousandths.
NaN == [nan |-> TRUE, n |-> 0]
F(x) == [nan |-> FALSE, n |-> x]

\* if (v): undefined, 0 and false are falsy; every non-empty string is truthy.
Truthy(v) ==
    CASE v.k = "undefined" -> FALSE
      [] v.k = "number" -> v.n # 0
      [] v.k = "boolean" -> v.n = 1
      [] OTHER -> TRUE

\* parseFloat(v): the argument is turned into a string and its leading
\* decimal is read; "abc", "--", "true" and "undefined" give NaN.
parseFloat(v) ==
    CASE v.k = "number" -> F(v.n)
      [] v.k = "numstr" -> F(v.n)
      [] OTHER -> NaN

\* ToNumber(v), the conversion the operators < and > apply to an operand.
ToNumber(v) ==
    CASE v.k = "number" -> F(v.n)
      [] v.k = "numstr" -> F(v.n)
      [] v.k = "boolean" -> F(v.n * 1000)
      [] OTHER -> NaN

\* a + b on numbers: NaN is absorbing.
Plus(a, b) == IF a.nan \/ b.nan THEN NaN ELSE F(a.n + b.n)

\* Comparisons with a literal c (thousandths): every comparison with NaN is false.
Lt(a, c) == ~a.nan /\ a.n < c
Ge(a, c) == ~a.nan /\ a.n >= c
Gt(a, c) == ~a.nan /\ a.n > c
Le(a, c) == ~a.nan /\ a.n <= c

\* A mean: null, or total / count kept as a fraction (NaN when total is NaN).
Null == [null |-> TRUE, nan |-> FALSE, num |-> 0, den |-> 1]
Quot(total, count) == [null |-> FALSE, nan |-> total.nan, num |-> total.n, den |-> count]

AvgLt(a, c) == ~a.nan /\ a.num < c * a.den
AvgLe(a, c) == ~a.nan /\ a.num <= c * a.den

\* Math.round(x): the nearest integer, halves going up; NaN stays NaN.
MathRound(a) ==
    IF a.nan THEN NaN
    ELSE F(1000 * ((2 * a.num + 1000 * a.den) \div (2000 * a.den)))

\* x.toFixed(1): x to one decimal place, as the text put into the body.
toFixed1(a) ==
    IF a.nan THEN NaN
    ELSE F(100 * ((2 * a.num + 100 * a.den) \div (200 * a.den)))

\* The text of a value concatenated into a string.
ToText(v) == IF v.k \in {"number", "numstr"} THEN F(v.n) ELSE NaN

\* A tip object; value is the number interpolated into its body (NoValue
\* when the body is a fixed text).  The icon is fixed by the title.
NoValue == [nan |-> FALSE, n |-> -1]
Tip(type, title, value) == [type |-> type, title |-> title, value |-> value]

\* Lines 50-65: the loop adding up one field over all entries.
RECURSIVE Total(_, _, _)
Total(log, field, upto) ==
    IF upto = 0 THEN F(0)
    ELSE IF Truthy(log[upto][field])
         THEN Plus(Total(log, field, upto - 1), parseFloat(log[upto][field]))
         ELSE Total(log, field, upto - 1)

Count(log, field) == Cardinality({i \in 1..Len(log) : Truthy(log[i][field])})

\* Lines 68-69.
Average(log, field) ==
    IF Count(log, field) > 0
    THEN Quot(Total(log, field, Len(log)), Count(log, field))
    ELSE Null

\* Lines 75-111.
BmiTips(latest) ==
    IF Truthy(latest.bmi) /\ latest.bmi.k # "dash"
    THEN LET bmi == parseFloat(latest.bmi) IN
         IF Lt(bmi, 18500)
         THEN <<Tip("warning", "Nutrition Power-Up Needed!", bmi)>>
         ELSE IF Ge(bmi, 18500) /\ Lt(bmi, 25000)
         THEN <<Tip("good", "BMI - Perfectly Balanced!", bmi)>>
         ELSE IF Ge(bmi, 25000) /\ Lt(bmi, 30000)
         THEN <<Tip("warning", "Training Montage Recommended!", bmi)>>
         ELSE <<Tip("alert", "Critical Quest: Weight Management", bmi)>>
    ELSE <<>>

\* Lines 117-151.
SleepTips(avgSleep) ==
    IF ~avgSleep.null
    THEN IF AvgLt(avgSleep, 6000)
         THEN <<Tip("alert", "Critical! Sleep HP is Low!", toFixed1(avgSleep))>>
         ELSE IF AvgLt(avgSleep, 7000)
         THEN <<Tip("warning", "Sleep Buff Almost There!", toFixed1(avgSleep))>>
         ELSE IF AvgLe(avgSleep, 9000)
         THEN <<Tip("good", "Sleep Master Achievement!", toFixed1(avgSleep))>>
         ELSE <<Tip("warning", "Oversleep Warning!", toFixed1(avgSleep))>>
    ELSE <<>>

\* Lines 157-185.
HeartRateTips(avgHR) ==
    IF ~avgHR.null
    THEN LET hr == MathRound(avgHR) IN
         IF Lt(hr, 60000)
         THEN <<Tip("info", "Low Resting Heart Rate", hr)>>
         ELSE IF Le(hr, 100000)
         THEN <<Tip("good", "Heart Rate - Optimal Zone!", hr)>>
         ELSE <<Tip("alert", "Heart Rate Running High!", hr)>>
    ELSE <<>>

\* Lines 199-206.
CycleLengthTips(latest) ==
    IF Truthy(latest.cycleLength)
       /\ (Lt(ToNumber(latest.cycleLength), 21000) \/ Gt(ToNumber(latest.cycleLength), 35000))
    THEN <<Tip("warning", "Cycle Length - Worth Checking", ToText(latest.cycleLength))>>
    ELSE <<>>

\* Lines 190-207.
CycleTips(latest) ==
    IF Truthy(latest.cycleTracking)
    THEN <<Tip("info", "Cycle Tracking Active!", NoValue)>> \o CycleLengthTips(latest)
    ELSE <<>>

\* ConsistencyTips with the test written > 3.
ConsistencyTipsAboveThree(log) ==
    IF Len(log) > 3
    THEN <<Tip("good", "Streak Bonus Active!", F(1000 * Len(log)))>>
    ELSE <<>>

\* Lines 212-219.
ConsistencyTips(log) ==
    IF Len(log) >= 3
    THEN <<Tip("good", "Streak Bonus Active!", F(1000 * Len(log)))>>
    ELSE <<>>

\* generatePersonalTips with the consistency block placed before the others.
generatePersonalTipsStreakFirst(log) ==
    IF Len(log) = 0 THEN <<>>
    ELSE LET latest == log[Len(log)]
             avgSleep == Average(log, "sleepHours")
             avgHR == Average(log, "heartRate")
         IN ConsistencyTips(log) \o BmiTips(latest) \o SleepTips(avgSleep)
              \o HeartRateTips(avgHR) \o CycleTips(latest)

\* Lines 38-222.
generatePersonalTips(log) ==
    IF Len(log) = 0 THEN <<>>
    ELSE LET latest == log[Len(log)]
             avgSleep == Average(log, "sleepHours")
             avgHR == Average(log, "heartRate")
         IN BmiTips(latest) \o SleepTips(avgSleep) \o HeartRateTips(avgHR)
              \o CycleTips(latest) \o ConsistencyTips(log)

\* Lines 229-260.
generalTips ==
    << [title |-> "Hydration Potion"], [title |-> "Eat the Rainbow"],
       [title |-> "10K Steps Quest"], [title |-> "Meditation Skill"],
       [title |-> "Screen Break Buff"], [title |-> "Strength Training"] >>

\* One element of the markup loadTips builds.
Block(block, cls, title, badge, value) ==
    [block |-> block, cls |-> cls, title |-> title, badge |-> badge, value |-> value]

\* PersonalSection with the placeholder appended outside the else branch.
PersonalSectionAlwaysPlaceholder(tips) ==
    (IF Len(tips) > 0
     THEN <<Block("tip-section-title", "", "Your Personal Power-Ups", "", NoValue)>>
          \o [i \in 1..Len(tips) |->
                Block("tip-card", tips[i].type, tips[i].title, "badge-personal", tips[i].value)]
     ELSE <<>>)
    \o <<Block("empty-state", "", "No Personal Tips Yet!", "", NoValue)>>

\* Lines 282-307.
PersonalSection(tips) ==
    IF Len(tips) > 0
    THEN <<Block("tip-section-title", "", "Your Personal Power-Ups", "", NoValue)>>
         \o [i \in 1..Len(tips) |->
               Block("tip-card", tips[i].type, tips[i].title, "badge-personal", tips[i].value)]
    ELSE <<Block("empty-state", "", "No Personal Tips Yet!", "", NoValue)>>

\* Lines 310-322.
GeneralSection ==
    <<Block("tip-section-title", "", "General Power-Up Guide", "", NoValue)>>
    \o [g \in 1..Len(generalTips) |->
          Block("general-tip", "", generalTips[g].title, "", NoValue)]

\* Lines 325-337.
HealerSection ==
    << Block("tip-section-title", "", "Need a Real Healer?", "", NoValue),
       Block("tip-card", "info", "Visit the Healer's Guild", "", NoValue) >>

\* The item 'healthQuestLog' of localStorage: missing, or the stored array.
NoItem == [has |-> FALSE, log |-> <<>>]
Item(log) == [has |-> TRUE, log |-> log]

\* Line 275: data ? JSON.parse(data) : []
ReadLog(data) == IF data.has THEN data.log ELSE <<>>

Entry(bmi, sleepHours, heartRate, cycleTracking, cycleLength) ==
    [bmi |-> bmi, sleepHours |-> sleepHours, heartRate |-> heartRate,
     cycleTracking |-> cycleTracking, cycleLength |-> cycleLength]

SeqsUpTo(S, n) == UNION {[1..m -> S] : m \in 0..n}

\* Stored logs: one family per field, varied over its boundary values, and
\* one family in which all fields vary together.
BmiValues ==
    {Undef, Dash, Junk, Str(22500), Num(0), Num(18499), Num(18500), Num(24999),
     Num(25000), Num(29999), Num(30000)}
SleepValues ==
    {Undef, Junk, Str(7500), Num(0), Num(5000), Num(5900), Num(6000), Num(7000),
     Num(9000), Num(9100)}
HeartRateValues ==
    {Undef, Junk, Str(72000), Num(0), Num(59000), Num(59400), Num(59600), Num(60000),
     Num(100400), Num(100600), Num(120000)}
CycleLengthValues ==
    {Undef, Junk, Str(40000), Num(0), Num(20000), Num(21000), Num(28000), Num(35000),
     Num(36000), Num(40000)}

BmiLogs == SeqsUpTo({Entry(b, Undef, Undef, Undef, Undef) : b \in BmiValues}, MaxLen)
SleepLogs == SeqsUpTo({Entry(Undef, s, Undef, Undef, Undef) : s \in SleepValues}, MaxLen)
HeartRateLogs == SeqsUpTo({Entry(Undef, Undef, h, Undef, Undef) : h \in HeartRateValues}, MaxLen)
CycleLogs ==
    {Append(p, Entry(Undef, Undef, Undef, t, c)) :
        p \in SeqsUpTo({Entry(Undef, Undef, Undef, Bool(TRUE), Num(40000)),
                        Entry(Undef, Undef, Undef, Undef, Undef)}, MaxLen - 1),
        t \in {Undef, Bool(TRUE), Bool(FALSE)}, c \in CycleLengthValues}
MixedLogs ==
    SeqsUpTo({Entry(b, s, h, t[1], t[2]) :
                b \in {Undef, Num(22000)}, s \in {Undef, Num(8000)},
                h \in {Undef, Num(70000)},
                t \in {<<Undef, Undef>>, <<Bool(TRUE), Num(40000)>>}}, MaxLen)

Logs == BmiLogs \cup SleepLogs \cup HeartRateLogs \cup CycleLogs \cup MixedLogs

\* The page before DOMContentLoaded: nothing computed, the container empty.
Init ==
    /\ storage \in {NoItem} \cup {Item(l) : l \in Logs}
    /\ questLog = <<>>
    /\ personalTips = <<>>
    /\ innerHTML = <<>>
    /\ prevTips = <<>>
    /\ calls = 0

\* loadTips with the tips array kept outside the function, so that a load
\* pushes onto the tips of the load before.
loadTipsKeepingTips ==
    /\ calls < MaxCalls
    /\ questLog' = ReadLog(storage)
    /\ personalTips' = personalTips \o generatePersonalTips(ReadLog(storage))
    /\ innerHTML' = PersonalSection(personalTips \o generatePersonalTips(ReadLog(storage)))
                      \o GeneralSection \o HealerSection
    /\ prevTips' = personalTips
    /\ calls' = calls + 1
    /\ UNCHANGED storage

\* Lines 269-341, run by the DOMContentLoaded handler (lines 349-351) on
\* every load of the page.  prevTips keeps the tips of the load before.
loadTips ==
    /\ calls < MaxCalls
    /\ questLog' = ReadLog(storage)
    /\ personalTips' = generatePersonalTips(ReadLog(storage))
    /\ innerHTML' = PersonalSection(generatePersonalTips(ReadLog(storage)))
                      \o GeneralSection \o HealerSection
    /\ prevTips' = personalTips
    /\ calls' = calls + 1
    /\ UNCHANGED storage

Next == loadTips

Spec == Init /\ [][Next]_vars

(***************************************************************************)
(* Vocabulary of the properties.                                           *)
(***************************************************************************)
BmiTitles ==
    {"Nutrition Power-Up Needed!", "BMI - Perfectly Balanced!",
     "Training Montage Recommended!", "Critical Quest: Weight Management"}
SleepTitles ==
    {"Critical! Sleep HP is Low!", "Sleep Buff Almost There!",
     "Sleep Master Achievement!", "Oversleep Warning!"}
HeartRateTitles ==
    {"Low Resting Heart Rate", "Heart Rate - Optimal Zone!", "Heart Rate Running High!"}

\* Position of a tip's category in BMI, Sleep, HeartRate, Cycle, CycleLength, Consistency.
Rank(tip) ==
    CASE tip.title \in BmiTitles -> 1
      [] tip.title \in SleepTitles -> 2
      [] tip.title \in HeartRateTitles -> 3
      [] tip.title = "Cycle Tracking Active!" -> 4
      [] tip.title = "Cycle Length - Worth Checking" -> 5
      [] tip.title = "Streak Bonus Active!" -> 6

OfRank(tips, r) == SelectSeq(tips, LAMBDA t : Rank(t) = r)

Loaded == calls > 0
Latest == questLog[Len(questLog)]

\* The sum of the numbers among log[1..upto][field].
RECURSIVE SumNumbers(_, _, _)
SumNumbers(log, field, upto) ==
    IF upto = 0 THEN 0
    ELSE SumNumbers(log, field, upto - 1)
           + (IF log[upto][field].k = "number" THEN log[upto][field].n ELSE 0)

NumberCount(log, field) == Cardinality({i \in 1..Len(log) : log[i][field].k = "number"})

OnlyNumbers(log, field) == \A i \in 1..Len(log) : log[i][field].k \in {"undefined", "number"}

\* C1: the tips of generatePersonalTips are in the category order BMI, Sleep,
\* HeartRate, Cycle tracking, Cycle length, Consistency, and no category
\* occurs twice: the ranks are strictly increasing along the sequence.
C1_CategoryOrder ==
    Loaded => \A i, j \in 1..Len(personalTips) :
                 i < j => Rank(personalTips[i]) < Rank(personalTips[j])

C1_Witness ==
    /\ Loaded
    /\ Len(personalTips) = 6
    /\ Rank(personalTips[1]) = 1
    /\ Rank(personalTips[6]) = 6

\* C2: for a non-empty log a BMI tip is emitted iff the latest bmi is present
\* and not '--', there is then exactly one, and its severity is warning below
\* 18.5, good in [18.5, 25), warning in [25, 30), alert from 30; only the
\* latest entry counts.  (Stated for a bmi that is absent, '--' or a number.)
C2_BmiTip ==
    (Loaded /\ Len(questLog) > 0 /\ Latest.bmi.k \in {"undefined", "dash", "number"}) =>
        LET b == Latest.bmi
            got == OfRank(personalTips, 1)
        IN IF b.k \in {"undefined", "dash"}
           THEN got = <<>>
           ELSE /\ Len(got) = 1
                /\ got[1].type = (IF b.n < 18500 THEN "warning"
                                  ELSE IF b.n < 25000 THEN "good"
                                  ELSE IF b.n < 30000 THEN "warning"
                                  ELSE "alert")

\* C3: for a non-empty log whose sleepHours are numbers >= 0 or absent, a sleep
\* tip is emitted iff some entry has sleepHours, and its bucket comes from the
\* mean over all entries that have it, 0 included: alert below 6, warning in
\* [6, 7), good in [7, 9], warning above 9.
C3_SleepTip ==
    (Loaded /\ Len(questLog) > 0 /\ OnlyNumbers(questLog, "sleepHours")) =>
        LET sum == SumNumbers(questLog, "sleepHours", Len(questLog))
            cnt == NumberCount(questLog, "sleepHours")
            got == OfRank(personalTips, 2)
        IN IF cnt = 0
           THEN got = <<>>
           ELSE /\ Len(got) = 1
                /\ got[1].type = (IF sum < 6000 * cnt THEN "alert"
                                  ELSE IF sum < 7000 * cnt THEN "warning"
                                  ELSE IF sum <= 9000 * cnt THEN "good"
                                  ELSE "warning")

\* C4: for a non-empty log with a heartRate in some entry exactly one
\* heart-rate tip is emitted, chosen from the mean of the heartRate values
\* rounded to the nearest integer: info below 60, good in [60, 100], alert
\* above 100; with no heartRate there is no such tip.  (Stated for heartRate
\* values that are numbers or absent.)
C4_HeartRateTip ==
    (Loaded /\ Len(questLog) > 0 /\ OnlyNumbers(questLog, "heartRate")) =>
        LET sum == SumNumbers(questLog, "heartRate", Len(questLog))
            cnt == NumberCount(questLog, "heartRate")
            got == OfRank(personalTips, 3)
        IN IF cnt = 0
           THEN got = <<>>
           ELSE LET rounded == (2 * sum + 1000 * cnt) \div (2000 * cnt) IN
                /\ Len(got) = 1
                /\ got[1].type = (IF rounded < 60 THEN "info"
                                  ELSE IF rounded <= 100 THEN "good"
                                  ELSE "alert")

\* The log with every bmi, sleepHours and heartRate that is no number removed.
WithoutMalformed(log) ==
    [i \in 1..Len(log) |->
       [log[i] EXCEPT !.bmi = IF @.k = "junk" THEN Undef ELSE @,
                      !.sleepHours = IF @.k = "junk" THEN Undef ELSE @,
                      !.heartRate = IF @.k = "junk" THEN Undef ELSE @]]

\* C5: a bmi, sleepHours or heartRate that cannot be read as a number is
\* treated as absent: a malformed latest bmi gives no BMI tip, malformed
\* sleepHours and heartRate are left out of the means, and the tips are those
\* of the log without the malformed values.
C5_MalformedIsAbsent ==
    (Loaded /\ Len(questLog) > 0) =>
        /\ Latest.bmi.k = "junk" => OfRank(personalTips, 1) = <<>>
        /\ (\A i \in 1..Len(questLog) : questLog[i].sleepHours.k \in {"undefined", "junk"})
              => OfRank(personalTips, 2) = <<>>
        /\ (\A i \in 1..Len(questLog) : questLog[i].heartRate.k \in {"undefined", "junk"})
              => OfRank(personalTips, 3) = <<>>
        /\ personalTips = generatePersonalTips(WithoutMalformed(questLog))

\* C6: for a non-empty log, when the latest cycleTracking is true exactly one
\* info tracking tip is emitted, followed at once by one warning cycle-length
\* tip iff the latest cycleLength is present and below 21 or above 35; when
\* cycleTracking is not true there is no cycle tip.  (Stated for a cycleLength
\* that is a number or absent.)
C6_CycleTips ==
    (Loaded /\ Len(questLog) > 0 /\ Latest.cycleLength.k \in {"undefined", "number"}) =>
        LET c == Latest.cycleLength
            tracking == OfRank(personalTips, 4)
            length == OfRank(personalTips, 5)
            outOfRange == c.k = "number" /\ (c.n < 21000 \/ c.n > 35000)
        IN IF Latest.cycleTracking = Bool(TRUE)
           THEN /\ Len(tracking) = 1
                /\ tracking[1].type = "info"
                /\ Len(length) = (IF outOfRange THEN 1 ELSE 0)
                /\ outOfRange =>
                     \E p \in 1..(Len(personalTips) - 1) :
                        /\ Rank(personalTips[p]) = 4
                        /\ Rank(personalTips[p + 1]) = 5
                        /\ personalTips[p + 1].type = "warning"
                        /\ personalTips[p + 1].value = F(c.n)
           ELSE tracking = <<>> /\ length = <<>>

\* C7: exactly one good consistency tip is emitted iff the log has at least 3
\* entries, whatever they hold; it is then the last tip and carries the
\* number of entries.
C7_ConsistencyTip ==
    Loaded =>
        LET got == OfRank(personalTips, 6) IN
        IF Len(questLog) >= 3
        THEN /\ Len(got) = 1
             /\ personalTips[Len(personalTips)] = got[1]
             /\ got[1].type = "good"
             /\ got[1].value = F(1000 * Len(questLog))
        ELSE got = <<>>

C7_Witness ==
    /\ Loaded
    /\ Len(questLog) = 3
    /\ Len(personalTips) >= 2
    /\ personalTips[Len(personalTips)].title = "Streak Bonus Active!"
    /\ personalTips[Len(personalTips)].value = F(3000)

\* C8: the empty log gives no tips, and a non-empty log gives no tips only
\* when no category applies: latest bmi absent or '--', no sleepHours and no
\* heartRate in any entry, latest cycleTracking not true, fewer than 3 entries.
C8_EmptyOutput ==
    Loaded =>
        /\ Len(questLog) = 0 => personalTips = <<>>
        /\ (Len(questLog) > 0 /\ personalTips = <<>>) =>
              /\ Latest.bmi.k \in {"undefined", "dash"}
              /\ \A i \in 1..Len(questLog) :
                    /\ questLog[i].sleepHours.k = "undefined"
                    /\ questLog[i].heartRate.k = "undefined"
              /\ Latest.cycleTracking # Bool(TRUE)
              /\ Len(questLog) < 3

IsPersonalCard(b) == b.block = "tip-card" /\ b.badge = "badge-personal"
IsHealerCard(b) == b.block = "tip-card" /\ b.badge = ""
Positions(h, Test(_)) == {p \in 1..Len(h) : Test(h[p])}

\* C10: loadTips builds the personal section (one card per personal tip, in
\* order, or the one 'No Personal Tips Yet!' placeholder exactly when there is
\* no tip), then every general tip in declared order, then the healer block.
C10_PageSections ==
    Loaded =>
        LET cards == SelectSeq(innerHTML, IsPersonalCard)
            general == SelectSeq(innerHTML, LAMBDA b : b.block = "general-tip")
            P == Positions(innerHTML, IsPersonalCard)
            E == Positions(innerHTML, LAMBDA b : b.block = "empty-state")
            G == Positions(innerHTML, LAMBDA b : b.block = "general-tip")
            H == Positions(innerHTML, IsHealerCard)
        IN /\ Len(cards) = Len(personalTips)
           /\ \A i \in 1..Len(cards) :
                 /\ cards[i].cls = personalTips[i].type
                 /\ cards[i].title = personalTips[i].title
                 /\ cards[i].value = personalTips[i].value
           /\ Cardinality(E) = (IF personalTips = <<>> THEN 1 ELSE 0)
           /\ \A e \in E : innerHTML[e].title = "No Personal Tips Yet!"
           /\ Len(general) = Len(generalTips)
           /\ \A g \in 1..Len(general) : general[g].title = generalTips[g].title
           /\ H = {Len(innerHTML)}
           /\ \A p \in P \cup E : \A g \in G : p < g
           /\ \A g \in G : \A h \in H : g < h

C10_Witness ==
    /\ Loaded
    /\ storage.has
    /\ Len(personalTips) >= 2
    /\ Len(innerHTML) = Len(personalTips) + 10
    /\ innerHTML[2].title = personalTips[1].title

====
